---- MODULE Spec2Model ----
(***************************************************************************)
(* Model of the QR code generator front end (a2mta/qr-code-generator):     *)
(* the option resolver, segment builder, mode classifier, vector renderer  *)
(* and metadata extractor of lib-adapters/qr, the App component that       *)
(* memoises the encode result and renders it, and the PNG exporter         *)
(* (saveSvgAsPng / handleSavePng).                                         *)
(*                                                                         *)
(* The symbol construction itself lives in libs/qrCodeGenerator, which is  *)
(* not among the sources; it is modelled from the specification as a       *)
(* black box whose choices (segmentation, capacity, module matrix) are     *)
(* made nondeterministically.                                              *)
(***************************************************************************)
EXTENDS Integers, Sequences, FiniteSets

(***************************************************************************)
(* Bounds of the model.                                                    *)
(***************************************************************************)
\* raw version inputs are the multiples of 1/Den in [-2, MaxRawVersion]
Den == 4
MaxRawVersion == 42
\* longest text handed to the segment builder directly
MaxTextLen == 2
\* the explicit masks chosen in the form are 0..MaxMask
MaxMask == 1
\* longest segment list handed to the mode classifier directly
MaxSegs == 4
\* largest side of a module matrix handed to the renderer directly
MaxSide == 2
\* longest width/height token of a viewBox attribute
MaxTokLen == 3
\* number of exports started in one run
MaxExports == 2

(***************************************************************************)
(* JavaScript numbers: NaN, the two infinities and exact rationals n/d.    *)
(***************************************************************************)
NaN == [kind |-> "nan", n |-> 0, d |-> 1]
PosInf == [kind |-> "inf", n |-> 1, d |-> 1]
NegInf == [kind |-> "inf", n |-> -1, d |-> 1]
Fin(n, d) == [kind |-> "fin", n |-> n, d |-> d]
Int2Num(n) == Fin(n, 1)

IsNaN(a) == a.kind = "nan"
NumberIsFinite(a) == a.kind = "fin"

\* a < b for two numbers that are not NaN
Less(a, b) ==
  IF a.kind = "inf" THEN a.n < 0 /\ ~(b.kind = "inf" /\ b.n < 0)
  ELSE IF b.kind = "inf" THEN b.n > 0
  ELSE a.n * b.d < b.n * a.d

NumEq(a, b) ==
  /\ a.kind = b.kind
  /\ a.kind = "inf" => a.n = b.n
  /\ a.kind = "fin" => a.n * b.d = b.n * a.d

MathMax(a, b) == IF IsNaN(a) \/ IsNaN(b) THEN NaN ELSE IF Less(a, b) THEN b ELSE a
MathMin(a, b) == IF IsNaN(a) \/ IsNaN(b) THEN NaN ELSE IF Less(b, a) THEN b ELSE a

\* Math.trunc: drop the fraction, toward zero
MathTrunc(a) ==
  IF a.kind # "fin" THEN a
  ELSE IF a.n >= 0 THEN Fin(a.n \div a.d, 1)
  ELSE Fin(-((-a.n) \div a.d), 1)

\* Math.round: nearest integer, halves toward +Infinity
MathRound(a) == IF a.kind # "fin" THEN a ELSE Fin((2 * a.n + a.d) \div (2 * a.d), 1)

Times(a, k) == IF a.kind # "fin" THEN a ELSE Fin(a.n * k, a.d)

\* truthiness of a number: NaN, 0 and -0 are falsy
Truthy(a) == ~IsNaN(a) /\ ~(a.kind = "fin" /\ a.n = 0)
\* a || b
OrElse(a, b) == IF Truthy(a) THEN a ELSE b

(***************************************************************************)
(* Strings are sequences of one-character strings.                         *)
(***************************************************************************)
DigitChar == <<"0", "1", "2", "3", "4", "5", "6", "7", "8", "9">>
Digits == {DigitChar[i] : i \in 1..10}
DigitVal(c) == (CHOOSE i \in 1..10 : DigitChar[i] = c) - 1

RECURSIVE ToDec(_)
\* `${n}` for a natural number n
ToDec(n) == IF n < 10 THEN <<DigitChar[n + 1]>> ELSE ToDec(n \div 10) \o <<DigitChar[(n % 10) + 1]>>

RECURSIVE DigitsValue(_)
DigitsValue(s) ==
  IF Len(s) = 0 THEN 0 ELSE 10 * DigitsValue(SubSeq(s, 1, Len(s) - 1)) + DigitVal(s[Len(s)])

RECURSIVE Pow10(_)
Pow10(k) == IF k = 0 THEN 1 ELSE 10 * Pow10(k - 1)

\* Number(s) for a string s of digits and dots
ParseNumber(s) ==
  LET dots == {i \in 1..Len(s) : s[i] = "."}
      nodot == SelectSeq(s, LAMBDA c : c # ".")
  IN  IF Cardinality(dots) > 1 \/ Len(nodot) = 0 \/ \E i \in 1..Len(s) : s[i] \notin Digits \cup {"."}
      THEN NaN
      ELSE IF dots = {} THEN Fin(DigitsValue(s), 1)
      ELSE LET p == CHOOSE i \in dots : TRUE
           IN  Fin(DigitsValue(nodot), Pow10(Len(s) - p))

StrsUpTo(alphabet, k) == UNION {[1..m -> alphabet] : m \in 0..k}

(***************************************************************************)
(* Option resolver.                                                        *)
(***************************************************************************)
clampVersion_noDefault(value) ==
  MathMin(Int2Num(40), MathMax(Int2Num(1), MathTrunc(value)))

clampVersion(value) ==
  MathMin(Int2Num(40), MathMax(Int2Num(1), OrElse(MathTrunc(value), Int2Num(1))))


(***************************************************************************)
(* Results of calls that may throw.                                        *)
(***************************************************************************)
NoError == [name |-> "", message |-> "", isError |-> FALSE]
JsError(name, message) == [name |-> name, message |-> message, isError |-> TRUE]
Return(v) == [ok |-> TRUE, value |-> <<v>>, error |-> NoError]
Throw(e) == [ok |-> FALSE, value |-> <<>>, error |-> e]

(***************************************************************************)
(* The QR engine (libs/qrCodeGenerator), modelled from the specification.  *)
(***************************************************************************)
UpperChars == {"A", "B", "C", "D", "E", "F", "G", "H", "I", "J", "K", "L", "M",
               "N", "O", "P", "Q", "R", "S", "T", "U", "V", "W", "X", "Y", "Z"}
AlphanumericChars == Digits \cup UpperChars \cup {" ", "$", "%", "*", "+", "-", ".", "/", ":"}

isNumeric(text) == \A i \in 1..Len(text) : text[i] \in Digits
isAlphanumeric(text) == \A i \in 1..Len(text) : text[i] \in AlphanumericChars

NUMERIC_BITS == 1
ALPHANUMERIC_BITS == 2
BYTE_BITS == 4

Segment(bits, data) == [mode |-> [modeBits |-> bits], data |-> data]

makeNumeric(text) ==
  IF isNumeric(text) THEN Return(Segment(NUMERIC_BITS, text))
  ELSE Throw(JsError("UnsupportedCharacters", "String contains non-numeric characters"))

makeAlphanumeric(text) ==
  IF isAlphanumeric(text) THEN Return(Segment(ALPHANUMERIC_BITS, text))
  ELSE Throw(JsError("UnsupportedCharacters",
                     "String contains unencodable characters in alphanumeric mode"))

makeBytes(bytes) == Return(Segment(BYTE_BITS, bytes))

RECURSIVE SplitAt(_, _, _)
\* the pieces of text between the cut positions, from position start on
SplitAt(text, cuts, start) ==
  IF start > Len(text) THEN <<>>
  ELSE LET later == {c \in cuts : c >= start /\ c < Len(text)}
           stop == IF later = {} THEN Len(text)
                   ELSE CHOOSE c \in later : \A e \in later : c <= e
       IN  <<SubSeq(text, start, stop)>> \o SplitAt(text, cuts, stop + 1)

\* the tightest mode that can hold a piece
TightSegment(piece) ==
  IF isNumeric(piece) THEN Segment(NUMERIC_BITS, piece)
  ELSE IF isAlphanumeric(piece) THEN Segment(ALPHANUMERIC_BITS, piece)
  ELSE Segment(BYTE_BITS, piece)

\* automatic segmentation: no segment for the empty text, otherwise the
\* pieces of some split of the text (the split is the engine's choice)
makeSegments(text, cuts) ==
  LET pieces == SplitAt(text, cuts, 1)
  IN  Return([i \in 1..Len(pieces) |-> TightSegment(pieces[i])])

EccOrdinal == [LOW |-> 0, MEDIUM |-> 1, QUARTILE |-> 2, HIGH |-> 3]

Matrices(n) == [(0..(n - 1)) \X (0..(n - 1)) -> BOOLEAN]
getModule(qr, x, y) == qr.modules[<<x, y>>]

\* encode: fails when nothing in the version range can hold the segments
\* (the engine's decision, choice.fits), otherwise a symbol whose matrix is
\* the engine's; the mask is the explicit one when one is given
encodeSegments(segments, ecl, minVersion, maxVersion, mask, boostEcl, choice) ==
  IF ~choice.fits THEN Throw(JsError("CapacityExceeded", "Data too long"))
  ELSE Return([size |-> choice.size,
               modules |-> choice.modules,
               version |-> minVersion,
               errorCorrectionLevel |->
                 [ordinal |-> IF boostEcl /\ choice.boosted THEN EccOrdinal.HIGH ELSE ecl.ordinal],
               mask |-> IF mask = -1 THEN choice.mask ELSE mask])

(***************************************************************************)
(* lib-adapters/qr                                                         *)
(***************************************************************************)
SVG_BORDER == 2

QrMode == {"auto", "numeric", "alphanumeric", "byte"}
QrEcc == {"LOW", "MEDIUM", "QUARTILE", "HIGH"}
\* a mask is held as the value of its option, String(mask)
QrMask == {"auto"} \cup {DigitChar[i] : i \in 1..8}
MaskOptions == {"auto"} \cup {DigitChar[i + 1] : i \in 0..MaxMask}

ECL_MAP == [e \in QrEcc |-> [ordinal |-> EccOrdinal[e]]]

ECL_BY_ORDINAL(ordinal) ==
  CASE ordinal = 0 -> "LOW"
    [] ordinal = 1 -> "MEDIUM"
    [] ordinal = 2 -> "QUARTILE"
    [] ordinal = 3 -> "HIGH"

\* MODE_BY_BITS[bits] ?? 'mixed'
MODE_BY_BITS(bits) ==
  CASE bits = 1 -> "numeric"
    [] bits = 2 -> "alphanumeric"
    [] bits = 4 -> "byte"
    [] OTHER -> "mixed"

\* UTF-8 bytes of the characters a text is made of here (all ASCII)
CodePoint(c) ==
  CASE c = "7" -> 55
    [] c = "Q" -> 81
    [] c = "h" -> 104
TextEncoderEncode(text) == [i \in 1..Len(text) |-> CodePoint(text[i])]

\* one segment per call in the explicit modes; the engine's errors propagate
Listed(made) == IF made.ok THEN Return(<<made.value[1]>>) ELSE made

buildSegments_emptyAware(text, mode, cuts) ==
  IF mode = "auto" \/ Len(text) = 0 THEN makeSegments(text, cuts)
  ELSE IF mode = "numeric" THEN Listed(makeNumeric(text))
  ELSE IF mode = "alphanumeric" THEN Listed(makeAlphanumeric(text))
  ELSE Listed(makeBytes(TextEncoderEncode(text)))

buildSegments(text, mode, cuts) ==
  IF mode = "auto" THEN makeSegments(text, cuts)
  ELSE IF mode = "numeric" THEN Listed(makeNumeric(text))
  ELSE IF mode = "alphanumeric" THEN Listed(makeAlphanumeric(text))
  ELSE Listed(makeBytes(TextEncoderEncode(text)))

detectUsedMode_first(segments) ==
  IF Len(segments) = 0 THEN "none" ELSE MODE_BY_BITS(segments[1].mode.modeBits)

detectUsedMode(segments) ==
  IF Len(segments) = 0 THEN "none"
  ELSE LET used == {MODE_BY_BITS(segments[i].mode.modeBits) : i \in 1..Len(segments)}
       IN  IF Cardinality(used) = 1 THEN CHOOSE single \in used : TRUE
           ELSE "mixed"

RECURSIVE CountFrom(_, _, _, _)
\* the nested loops of countDarkModules from cell (x, y) on, x running up to xEnd
CountFrom(qr, x, y, xEnd) ==
  IF y >= qr.size THEN 0
  ELSE IF x >= xEnd THEN CountFrom(qr, 0, y + 1, xEnd)
  ELSE (IF getModule(qr, x, y) THEN 1 ELSE 0) + CountFrom(qr, x + 1, y, xEnd)

countDarkModules_shortRow(qr) == CountFrom(qr, 0, 0, qr.size - 1)

countDarkModules(qr) == CountFrom(qr, 0, 0, qr.size)

\* the subpath `M${x},${y}h1v1h-1z`
Subpath(x, y) == <<"M", ToDec(x), ",", ToDec(y), "h1v1h-1z">>

RECURSIVE PathFrom(_, _, _)
\* the nested loops of toSvg from cell (x, y) on: the subpaths appended
PathFrom(qr, x, y) ==
  IF y >= qr.size THEN <<>>
  ELSE IF x >= qr.size THEN PathFrom(qr, 0, y + 1)
  ELSE (IF getModule(qr, x, y) THEN <<Subpath(x + SVG_BORDER, y + SVG_BORDER)>> ELSE <<>>)
       \o PathFrom(qr, x + 1, y)

RECURSIVE PathFromColumns(_, _, _)
PathFromColumns(qr, x, y) ==
  IF x >= qr.size THEN <<>>
  ELSE IF y >= qr.size THEN PathFromColumns(qr, x + 1, 0)
  ELSE (IF getModule(qr, x, y) THEN <<Subpath(x + SVG_BORDER, y + SVG_BORDER)>> ELSE <<>>)
       \o PathFromColumns(qr, x, y + 1)

\* a vector document: the tokens of its viewBox attribute (separated by
\* single spaces) and the subpaths of its path data (separated by single
\* spaces, the trailing one trimmed)
Document(hasViewBox, viewBox, d) == [hasViewBox |-> hasViewBox, viewBox |-> viewBox, d |-> d]

toSvg_columnMajor(qr) ==
  LET viewBox == qr.size + SVG_BORDER * 2
  IN  Document(TRUE, <<ToDec(0), ToDec(0), ToDec(viewBox), ToDec(viewBox)>>,
               PathFromColumns(qr, 0, 0))

toSvg(qr) ==
  LET viewBox == qr.size + SVG_BORDER * 2
  IN  Document(TRUE, <<ToDec(0), ToDec(0), ToDec(viewBox), ToDec(viewBox)>>, PathFrom(qr, 0, 0))

VersionOf(v) == v.n \div v.d

RangeErrorMessage == "Minimum version cannot be greater than maximum version"

\* generateQrCode: the value returned or the error thrown, and the calls of
\* the engine's encode it made
Outcome(r, calls) == [ok |-> r.ok, value |-> r.value, error |-> r.error, encodeCalls |-> calls]

\* generateQrCode past the range check: segments, encode, svg and metadata
encodeResolved(options, minVersion, maxVersion, choice) ==
  LET built == buildSegments(options.text, options.mode, choice.cuts)
  IN  IF ~built.ok THEN Outcome(built, <<>>)
      ELSE
        LET segments == built.value[1]
            call == [segments |-> segments, minVersion |-> VersionOf(minVersion),
                     maxVersion |-> VersionOf(maxVersion)]
            encoded == encodeSegments(segments, ECL_MAP[options.ecl],
                                      VersionOf(minVersion), VersionOf(maxVersion),
                                      IF options.mask = "auto" THEN -1 ELSE DigitVal(options.mask),
                                      options.boostEcl, choice)
        IN  IF ~encoded.ok THEN Outcome(encoded, <<call>>)
            ELSE
              LET qr == encoded.value[1]
              IN  Outcome(Return(
                    [svg |-> toSvg(qr),
                     metadata |->
                       [requestedMode |-> options.mode,
                        usedMode |-> detectUsedMode(segments),
                        requestedEcl |-> options.ecl,
                        actualEcl |-> ECL_BY_ORDINAL(qr.errorCorrectionLevel.ordinal),
                        version |-> qr.version,
                        size |-> qr.size,
                        mask |-> qr.mask,
                        segmentCount |-> Len(segments),
                        darkModules |-> countDarkModules(qr)]]), <<call>>)

generateQrCode_noRangeCheck(options, choice) ==
  encodeResolved(options, clampVersion(options.minVersion), clampVersion(options.maxVersion), choice)

generateQrCode(options, choice) ==
  LET minVersion == clampVersion(options.minVersion)
      maxVersion == clampVersion(options.maxVersion)
  IN  IF Less(maxVersion, minVersion)
      THEN Outcome(Throw(JsError("RangeError", RangeErrorMessage)), <<>>)
      ELSE encodeResolved(options, minVersion, maxVersion, choice)

(***************************************************************************)
(* App: PNG export helpers.                                                *)
(***************************************************************************)
PNG_SCALE == 16
DEFAULT_PNG_SIZE == 512

\* [\d.]+
IsNumberToken(tok) == Len(tok) > 0 /\ \A i \in 1..Len(tok) : tok[i] \in Digits \cup {"."}

\* svg.match(/viewBox="[^"]*\s([\d.]+)\s([\d.]+)"/i): the two groups are the
\* last two tokens of the attribute, and a whitespace must precede the first
ViewBoxMatch(svg) ==
  LET vb == svg.viewBox
  IN  IF svg.hasViewBox /\ Len(vb) >= 3 /\ IsNumberToken(vb[Len(vb) - 1]) /\ IsNumberToken(vb[Len(vb)])
      THEN <<vb[Len(vb) - 1], vb[Len(vb)]>>
      ELSE <<>>

getSvgSize_noFallback(svg) ==
  LET match == ViewBoxMatch(svg)
  IN  IF match = <<>> THEN Int2Num(DEFAULT_PNG_SIZE)
      ELSE MathMax(ParseNumber(match[1]), ParseNumber(match[2]))

getSvgSize(svg) ==
  LET match == ViewBoxMatch(svg)
  IN  IF match = <<>> THEN Int2Num(DEFAULT_PNG_SIZE)
      ELSE LET width == ParseNumber(match[1])
               height == ParseNumber(match[2])
               size == MathMax(width, height)
           IN  IF NumberIsFinite(size) /\ Less(Int2Num(0), size) THEN size
               ELSE Int2Num(DEFAULT_PNG_SIZE)

\* Math.round(getSvgSize(svg) * PNG_SCALE): the side of the canvas
canvasSize(svg) == MathRound(Times(getSvgSize(svg), PNG_SCALE))


(***************************************************************************)
(* State.                                                                  *)
(***************************************************************************)
VARIABLES
  text, mode, ecl, minVersion, maxVersion, mask, boostEcl,  \* useState of App
  result,      \* the memoised { data, error } of App
  lastRun,     \* the latest generateQrCode call: thrown error, calls of encode
  exports,     \* the saveSvgAsPng calls, by number
  objectUrls,  \* the object URL registry of the browser, by URL number
  call         \* the latest direct call of an adapter function

appVars == <<text, mode, ecl, minVersion, maxVersion, mask, boostEcl, result, lastRun>>
exportVars == <<exports, objectUrls>>
vars == <<text, mode, ecl, minVersion, maxVersion, mask, boostEcl, result, lastRun,
          exports, objectUrls, call>>

(***************************************************************************)
(* Inputs.                                                                 *)
(***************************************************************************)
\* a digit, an upper-case letter and a character only bytes can hold
TextChars == {"7", "Q", "h"}
Texts == StrsUpTo(TextChars, MaxTextLen)
\* the texts typed into the text area: the empty one and one of each class
\* the engine tells apart (numeric, alphanumeric, bytes only)
FormTexts == {<<>>, <<"7">>, <<"Q">>, <<"h">>}
\* 'https://example.com', a text only bytes can hold
DEFAULT_TEXT == <<"h">>

\* what Number(event.target.value) gives for the version fields
FieldNumbers == {Int2Num(0), Int2Num(1), Int2Num(41)}

\* the matrices the engine answers with in the App: the two checkerboards
Checkerboard(n, p) ==
  [size |-> n, modules |-> [c \in (0..(n - 1)) \X (0..(n - 1)) |-> (c[1] + c[2]) % 2 = p]]
EngineSymbols == {Checkerboard(MaxSide, p) : p \in 0..1}

\* the engine's own decisions in one generateQrCode call: how it cuts the
\* text in auto mode, whether the segments fit, the symbol, the mask it picks
EngineChoices(t) ==
  {[cuts |-> c, fits |-> TRUE, size |-> q.size, modules |-> q.modules, boosted |-> TRUE, mask |-> 0] :
     c \in SUBSET (1..(Len(t) - 1)), q \in EngineSymbols}
  \cup {[cuts |-> {}, fits |-> FALSE, size |-> 0, modules |-> <<>>, boosted |-> FALSE, mask |-> 0]}

(***************************************************************************)
(* App: the memoised result and the result panel.                          *)
(***************************************************************************)
Options(t, m, e, lo, hi, k, b) ==
  [text |-> t, mode |-> m, ecl |-> e, minVersion |-> lo, maxVersion |-> hi, mask |-> k, boostEcl |-> b]

catchMessage(error) == IF error.isError THEN error.message ELSE "Failed to generate QR"

\* useMemo(() => { try {...} catch {...} })
memoResult_keepData(run, previous) ==
  IF run.ok THEN [data |-> run.value, error |-> <<>>]
  ELSE [data |-> previous.data, error |-> <<catchMessage(run.error)>>]

memoResult(run, previous) ==
  IF run.ok THEN [data |-> run.value, error |-> <<>>]
  ELSE [data |-> <<>>, error |-> <<catchMessage(run.error)>>]

\* the result panel: the error box when result.error is truthy, otherwise the
\* preview, the save button and the metadata of result.data
Panel(r) ==
  IF r.error # <<>> /\ r.error[1] # ""
  THEN [shows |-> "error", image |-> <<>>, metadata |-> <<>>, message |-> r.error]
  ELSE IF r.data = <<>>
       THEN [shows |-> "crash", image |-> <<>>, metadata |-> <<>>, message |-> <<>>]
       ELSE [shows |-> "image", image |-> <<r.data[1].svg>>, metadata |-> <<r.data[1].metadata>>,
             message |-> <<>>]

Screen == Panel(result)

\* a render of App with the given state: result and lastRun
Render(t, m, e, lo, hi, k, b, previous, r, run) ==
  \E choice \in EngineChoices(t) :
    LET made == generateQrCode(Options(t, m, e, lo, hi, k, b), choice)
    IN  /\ r = memoResult(made, previous)
        /\ run = [ok |-> made.ok, error |-> made.error, encodeCalls |-> made.encodeCalls]

NoResult == [data |-> <<>>, error |-> <<>>]

\* a saveSvgAsPng call: where it is, its svg argument, its object URL, how
\* its await ended (event), what it rejected with, the download it triggered,
\* and the alert handleSavePng showed for it
IdleExport == [pc |-> "idle", svg |-> <<>>, svgUrl |-> 0, event |-> "none", download |-> <<>>,
               rejected |-> <<>>, alert |-> <<>>]
NoCall == [fn |-> "none", arg |-> <<>>, ret |-> <<>>]

InitApp ==
  /\ text = DEFAULT_TEXT
  /\ mode = "auto"
  /\ ecl = "MEDIUM"
  /\ minVersion = Int2Num(1)
  /\ maxVersion = Int2Num(40)
  /\ mask = "auto"
  /\ boostEcl = TRUE
  /\ Render(text, mode, ecl, minVersion, maxVersion, mask, boostEcl, NoResult, result, lastRun)
  /\ exports = [e \in 1..MaxExports |-> IdleExport]
  /\ objectUrls = [u \in 1..MaxExports |-> [created |-> FALSE, revoked |-> 0]]

Init == InitApp /\ call = NoCall

(***************************************************************************)
(* App: the form controls.  A control that changes a state re-renders App, *)
(* which recomputes the memoised result.                                   *)
(***************************************************************************)
SetText ==
  \E t \in FormTexts \ {text} :
    /\ text' = t
    /\ Render(t, mode, ecl, minVersion, maxVersion, mask, boostEcl, result, result', lastRun')
    /\ UNCHANGED <<mode, ecl, minVersion, maxVersion, mask, boostEcl, exports, objectUrls, call>>

SetMode ==
  \E m \in QrMode \ {mode} :
    /\ mode' = m
    /\ Render(text, m, ecl, minVersion, maxVersion, mask, boostEcl, result, result', lastRun')
    /\ UNCHANGED <<text, ecl, minVersion, maxVersion, mask, boostEcl, exports, objectUrls, call>>

SetEcl ==
  \E e \in QrEcc \ {ecl} :
    /\ ecl' = e
    /\ Render(text, mode, e, minVersion, maxVersion, mask, boostEcl, result, result', lastRun')
    /\ UNCHANGED <<text, mode, minVersion, maxVersion, mask, boostEcl, exports, objectUrls, call>>

SetMinVersion ==
  \E raw \in FieldNumbers :
    LET v == OrElse(raw, Int2Num(1))
    IN  /\ v # minVersion
        /\ minVersion' = v
        /\ Render(text, mode, ecl, v, maxVersion, mask, boostEcl, result, result', lastRun')
        /\ UNCHANGED <<text, mode, ecl, maxVersion, mask, boostEcl, exports, objectUrls, call>>

SetMaxVersion ==
  \E raw \in FieldNumbers :
    LET v == OrElse(raw, Int2Num(40))
    IN  /\ v # maxVersion
        /\ maxVersion' = v
        /\ Render(text, mode, ecl, minVersion, v, mask, boostEcl, result, result', lastRun')
        /\ UNCHANGED <<text, mode, ecl, minVersion, mask, boostEcl, exports, objectUrls, call>>

SetMask ==
  \E k \in MaskOptions \ {mask} :
    /\ mask' = k
    /\ Render(text, mode, ecl, minVersion, maxVersion, k, boostEcl, result, result', lastRun')
    /\ UNCHANGED <<text, mode, ecl, minVersion, maxVersion, boostEcl, exports, objectUrls, call>>

SetBoostEcl ==
  /\ boostEcl' = ~boostEcl
  /\ Render(text, mode, ecl, minVersion, maxVersion, mask, boostEcl', result, result', lastRun')
  /\ UNCHANGED <<text, mode, ecl, minVersion, maxVersion, mask, exports, objectUrls, call>>


(***************************************************************************)
(* App: Save QR as PNG.  saveSvgAsPng runs to its await in the click, and  *)
(* from the load or error event of the image to its end, the catch of      *)
(* handleSavePng included.                                                 *)
(***************************************************************************)
Started == {e \in 1..MaxExports : exports[e].pc # "idle"}
Created == {u \in 1..MaxExports : objectUrls[u].created}

\* URL.revokeObjectURL(svgUrl) in the finally block
revokeObjectURL_onSuccess(urls, svgUrl, rejected) ==
  IF rejected = <<>>
  THEN [urls EXCEPT ![svgUrl] = [created |-> TRUE, revoked |-> urls[svgUrl].revoked + 1]]
  ELSE urls

revokeObjectURL(urls, svgUrl, rejected) ==
  [urls EXCEPT ![svgUrl] = [created |-> TRUE, revoked |-> urls[svgUrl].revoked + 1]]

\* the rest of saveSvgAsPng once the image loaded (decoded) or failed to:
\* the error it rejects with, or the download it triggers
saveSvgAsPng_noContextCheck(svg, filename, decoded, haveContext, current) ==
  IF ~decoded THEN [rejected |-> <<JsError("Error", "Unable to render QR image")>>, download |-> <<>>]
  ELSE [rejected |-> <<>>,
        download |-> <<[filename |-> filename, side |-> canvasSize(svg), document |-> svg]>>]

saveSvgAsPng_currentImage(svg, filename, decoded, haveContext, current) ==
  IF ~decoded THEN [rejected |-> <<JsError("Error", "Unable to render QR image")>>, download |-> <<>>]
  ELSE IF ~haveContext
       THEN [rejected |-> <<JsError("Error", "Unable to create image canvas")>>, download |-> <<>>]
       ELSE LET doc == IF current.data = <<>> THEN svg ELSE current.data[1].svg
            IN  [rejected |-> <<>>,
                 download |-> <<[filename |-> filename, side |-> canvasSize(doc), document |-> doc]>>]

saveSvgAsPng(svg, filename, decoded, haveContext, current) ==
  IF ~decoded THEN [rejected |-> <<JsError("Error", "Unable to render QR image")>>, download |-> <<>>]
  ELSE IF ~haveContext
       THEN [rejected |-> <<JsError("Error", "Unable to create image canvas")>>, download |-> <<>>]
       ELSE [rejected |-> <<>>,
             download |-> <<[filename |-> filename, side |-> canvasSize(svg), document |-> svg]>>]

\* the catch of handleSavePng: the alert shown
handleSavePng_catch(rejected) ==
  IF rejected = <<>> THEN <<>>
  ELSE <<IF rejected[1].isError THEN rejected[1].message ELSE "Failed to save QR code image">>

\* a click on the button (rendered only beside an image): handleSavePng
\* calls saveSvgAsPng, which creates the object URL and awaits the image
ClickSave ==
  /\ Screen.shows = "image"
  /\ result.data # <<>>
  /\ Cardinality(Started) < MaxExports
  /\ LET e == Cardinality(Started) + 1
         u == Cardinality(Created) + 1
     IN  /\ exports' = [exports EXCEPT ![e] = [IdleExport EXCEPT !.pc = "awaitImage",
                                                                !.svg = <<result.data[1].svg>>,
                                                                !.svgUrl = u]]
         /\ objectUrls' = [objectUrls EXCEPT ![u] = [created |-> TRUE, revoked |-> 0]]
  /\ UNCHANGED <<appVars, call>>

\* the event that ends the await of export e
Resume(e, decoded, haveContext) ==
  /\ exports[e].pc = "awaitImage"
  /\ LET end == saveSvgAsPng(exports[e].svg[1], "qr-code.png", decoded, haveContext, result)
     IN  /\ exports' = [exports EXCEPT ![e] = [exports[e] EXCEPT !.pc = "done",
                                                                 !.event = IF ~decoded THEN "error"
                                                                           ELSE IF haveContext THEN "load"
                                                                           ELSE "loadNoContext",
                                                                 !.download = end.download,
                                                                 !.rejected = end.rejected,
                                                                 !.alert = handleSavePng_catch(end.rejected)]]
         /\ objectUrls' = revokeObjectURL(objectUrls, exports[e].svgUrl, end.rejected)
  /\ UNCHANGED <<appVars, call>>

ImageLoaded == \E e \in 1..MaxExports, haveContext \in BOOLEAN : Resume(e, TRUE, haveContext)
ImageFailed == \E e \in 1..MaxExports : Resume(e, FALSE, TRUE)

FormNext ==
  \/ SetText
  \/ SetMode
  \/ SetEcl
  \/ SetMinVersion
  \/ SetMaxVersion
  \/ SetMask
  \/ SetBoostEcl

SpecForm == Init /\ [][FormNext]_vars

Next ==
  \/ SetMode
  \/ SetMinVersion
  \/ SetMaxVersion
  \/ ClickSave
  \/ ImageLoaded
  \/ ImageFailed

Spec == Init /\ [][Next]_vars


(***************************************************************************)
(* Direct calls of the functions of lib-adapters/qr and of the export size *)
(* computation, on inputs the form cannot produce.                         *)
(***************************************************************************)
RawNumbers == {NaN, PosInf, NegInf} \cup {Fin(n, Den) : n \in (-2 * Den)..(MaxRawVersion * Den)}

SegmentBits == {1, 2, 4, 8}
SegmentLists == UNION {[1..m -> {Segment(b, <<>>) : b \in SegmentBits}] : m \in 0..MaxSegs}

Symbols == UNION {{[size |-> n, modules |-> m] : m \in Matrices(n)} : n \in 1..MaxSide}

\* the tokens tried as width and height of a viewBox
TokenChars == {"0", "1", "."}
NumberTokens == (StrsUpTo(TokenChars, MaxTokLen) \ {<<>>}) \cup {<<"2", "5">>, <<"-", "5">>}
\* the documents sized: without a viewBox, and with one of up to four tokens
Documents ==
  {Document(FALSE, <<>>, <<>>)}
  \cup {Document(TRUE, lead \o <<w, h>>, <<>>) :
          lead \in {<<>>, <<ToDec(0)>>, <<ToDec(0), ToDec(0)>>}, w \in NumberTokens, h \in NumberTokens}

Pending(fn, arg) == [fn |-> fn, arg |-> arg, ret |-> <<>>]

\* a call is drawn at the start and then made
InitFn ==
  /\ InitApp
  /\ call \in {Pending("clampVersion", v) : v \in RawNumbers}
              \cup {Pending("buildSegments", [text |-> t, mode |-> m, cuts |-> c]) :
                      t \in Texts, m \in QrMode, c \in SUBSET (1..(MaxTextLen - 1))}
              \cup {Pending("detectUsedMode", segments) : segments \in SegmentLists}
              \cup {Pending("render", qr) : qr \in Symbols}
              \cup {Pending("canvasSize", svg) : svg \in Documents}

Made(ret) == call' = [fn |-> call.fn, arg |-> call.arg, ret |-> <<ret>>]

CallClampVersion ==
  /\ call.fn = "clampVersion" /\ call.ret = <<>>
  /\ Made(clampVersion(call.arg))
  /\ UNCHANGED <<appVars, exportVars>>

CallBuildSegments ==
  /\ call.fn = "buildSegments" /\ call.ret = <<>>
  /\ LET built == buildSegments(call.arg.text, call.arg.mode, call.arg.cuts)
     IN  Made([built |-> built,
               usedMode |-> IF built.ok THEN detectUsedMode(built.value[1]) ELSE "none"])
  /\ UNCHANGED <<appVars, exportVars>>

CallDetectUsedMode ==
  /\ call.fn = "detectUsedMode" /\ call.ret = <<>>
  /\ Made(detectUsedMode(call.arg))
  /\ UNCHANGED <<appVars, exportVars>>

\* what generateQrCode makes of the symbol the engine returns, and the side
\* of the canvas saveSvgAsPng draws its image on
CallRender ==
  /\ call.fn = "render" /\ call.ret = <<>>
  /\ Made([svg |-> toSvg(call.arg), darkModules |-> countDarkModules(call.arg),
           side |-> canvasSize(toSvg(call.arg))])
  /\ UNCHANGED <<appVars, exportVars>>

CallCanvasSize ==
  /\ call.fn = "canvasSize" /\ call.ret = <<>>
  /\ Made([size |-> getSvgSize(call.arg), side |-> canvasSize(call.arg)])
  /\ UNCHANGED <<appVars, exportVars>>

FnNext ==
  \/ CallClampVersion
  \/ CallBuildSegments
  \/ CallDetectUsedMode
  \/ CallRender
  \/ CallCanvasSize

SpecFn == InitFn /\ [][FnNext]_vars


(***************************************************************************)
(* The option resolver.                                                    *)
(***************************************************************************)
\* the version a raw value stands for: 1 below 1, the whole part up to 40
WholeVersion(v) ==
  IF v.n < v.d THEN 1 ELSE IF v.n \div v.d > 40 THEN 40 ELSE v.n \div v.d

ClampCalled == call.fn = "clampVersion" /\ call.ret # <<>>

\* C4 as claimed: clampVersion truncates, gives 1 for every non-positive or
\* non-finite value (NaN, +Infinity, -Infinity), clamps the rest to [1,40],
\* and always returns an integer in [1,40].
C4_AsClaimed ==
  ClampCalled =>
    /\ call.ret[1].kind = "fin" /\ call.ret[1].d = 1 /\ call.ret[1].n \in 1..40
    /\ call.ret[1].n = IF call.arg.kind # "fin" THEN 1 ELSE WholeVersion(call.arg)

\* C4 amended: clampVersion truncates, gives 1 when the truncated value is
\* zero or NaN, and clamps to [1,40]; so every value below 1, NaN and
\* -Infinity give 1, +Infinity gives 40, and the result is always an integer
\* in [1,40].
C4_ClampVersion ==
  ClampCalled =>
    /\ call.ret[1].kind = "fin" /\ call.ret[1].d = 1 /\ call.ret[1].n \in 1..40
    /\ call.ret[1].n = IF call.arg.kind = "nan" THEN 1
                       ELSE IF call.arg.kind = "inf" THEN (IF call.arg.n > 0 THEN 40 ELSE 1)
                       ELSE WholeVersion(call.arg)

C4_Witness == ClampCalled /\ call.arg = PosInf /\ call.ret[1] = Int2Num(40)

(***************************************************************************)
(* The mode classifier.                                                    *)
(***************************************************************************)
ModeName(bits) == IF bits = 1 THEN "numeric" ELSE IF bits = 2 THEN "alphanumeric" ELSE "byte"

\* what the claim expects of a list of numeric, alphanumeric and byte segments
ExpectedUsedMode(segments) ==
  IF segments = <<>> THEN "none"
  ELSE IF \A i \in 1..Len(segments) : segments[i].mode.modeBits = segments[1].mode.modeBits
       THEN ModeName(segments[1].mode.modeBits)
       ELSE "mixed"

OnlyKnownModes(segments) == \A i \in 1..Len(segments) : segments[i].mode.modeBits \in {1, 2, 4}

\* C8: for segments of modes numeric, alphanumeric and byte, detectUsedMode
\* is none for the empty list, the common mode when all agree, and mixed
\* otherwise; for the segments buildSegments made it is computed from them,
\* whatever mode was requested.
C8_DetectUsedMode ==
  /\ (call.fn = "detectUsedMode" /\ call.ret # <<>> /\ OnlyKnownModes(call.arg))
       => call.ret[1] = ExpectedUsedMode(call.arg)
  /\ (call.fn = "buildSegments" /\ call.ret # <<>> /\ call.ret[1].built.ok)
       => call.ret[1].usedMode = ExpectedUsedMode(call.ret[1].built.value[1])

C8_Witness ==
  /\ call.fn = "detectUsedMode" /\ call.ret # <<>> /\ OnlyKnownModes(call.arg)
  /\ Len(call.arg) = 3
  /\ call.arg[1].mode.modeBits = 1 /\ call.arg[2].mode.modeBits = 1 /\ call.arg[3].mode.modeBits = 4
  /\ call.ret[1] = "mixed"

(***************************************************************************)
(* The vector renderer and the dark module count.                          *)
(***************************************************************************)
DarkCells(qr) == {c \in (0..(qr.size - 1)) \X (0..(qr.size - 1)) : qr.modules[c]}
\* the place of a dark cell <<x, y>> among the dark cells, rows first
RowMajorRank(qr, c) ==
  1 + Cardinality({o \in DarkCells(qr) : o[2] < c[2] \/ (o[2] = c[2] /\ o[1] < c[1])})

Rendered == call.fn = "render" /\ call.ret # <<>>

\* C5: darkModules is the number of subpaths of the rendered path, which is
\* the number of dark cells: one subpath M(x+2),(y+2)h1v1h-1z per dark cell,
\* rows first, and nothing for a light cell.
C5_DarkModules ==
  Rendered =>
    LET qr == call.arg
        d == call.ret[1].svg.d
    IN  /\ call.ret[1].darkModules = Len(d)
        /\ Len(d) = Cardinality(DarkCells(qr))
        /\ \A c \in DarkCells(qr) :
             d[RowMajorRank(qr, c)] = <<"M", ToDec(c[1] + 2), ",", ToDec(c[2] + 2), "h1v1h-1z">>

C5_Witness ==
  /\ Rendered
  /\ call.arg.size = 2
  /\ DarkCells(call.arg) = {<<1, 0>>, <<0, 1>>, <<1, 1>>}
  /\ call.ret[1].darkModules = 3
  /\ Len(call.ret[1].svg.d) = 3

(***************************************************************************)
(* The side of the exported raster.                                        *)
(***************************************************************************)
Sized == call.fn = "canvasSize" /\ call.ret # <<>>

\* the size the viewBox of a document declares, 512 when it declares none
\* that is finite and positive
DeclaredSize(svg) ==
  LET vb == svg.viewBox
      n == Len(vb)
  IN  IF ~svg.hasViewBox \/ n < 3 THEN Int2Num(512)
      ELSE IF ~IsNumberToken(vb[n - 1]) \/ ~IsNumberToken(vb[n]) THEN Int2Num(512)
      ELSE LET w == ParseNumber(vb[n - 1])
               h == ParseNumber(vb[n])
           IN  IF IsNaN(w) \/ IsNaN(h) THEN Int2Num(512)
               ELSE IF w.n <= 0 /\ h.n <= 0 THEN Int2Num(512)
               ELSE IF w.n * h.d >= h.n * w.d THEN w ELSE h

\* side is the integer nearest to 16 * s, halves up
IsRounded16(side, s) ==
  /\ side.kind = "fin" /\ side.d = 1
  /\ 2 * side.n * s.d <= 32 * s.n + s.d
  /\ 32 * s.n + s.d < 2 * (side.n + 1) * s.d

RangeInverted == WholeVersion(minVersion) > WholeVersion(maxVersion)

\* C1: when the clamped minVersion exceeds the clamped maxVersion,
\* generateQrCode throws the RangeError, whatever the text and mode, there is
\* no image, and the engine's encode is not called; encode is only ever
\* called with minVersion <= maxVersion.
C1_InvalidRange ==
  /\ RangeInverted =>
       /\ ~lastRun.ok
       /\ lastRun.error.name = "RangeError"
       /\ lastRun.error.message = "Minimum version cannot be greater than maximum version"
       /\ lastRun.encodeCalls = <<>>
       /\ result.data = <<>>
       /\ Screen.image = <<>>
  /\ \A i \in 1..Len(lastRun.encodeCalls) :
       lastRun.encodeCalls[i].minVersion <= lastRun.encodeCalls[i].maxVersion

\* an inverted range with a text the requested mode rejects
C1_Witness ==
  /\ RangeInverted
  /\ text = <<"h">> /\ mode = "numeric"
  /\ lastRun.error.name = "RangeError"
  /\ Screen.shows = "error"

\* C2: after every encode the panel shows either the image with its metadata
\* and no message, or a message and no image; a failed encode (RangeError,
\* UnsupportedCharacters, CapacityExceeded) shows the message of its error
\* and leaves no image of an earlier encode in the result.
C2_ImageOrError ==
  /\ lastRun.ok =>
       /\ Screen.shows = "image"
       /\ Screen.image = <<result.data[1].svg>>
       /\ Screen.metadata = <<result.data[1].metadata>>
       /\ Screen.message = <<>>
       /\ result.error = <<>>
  /\ ~lastRun.ok =>
       /\ lastRun.error.name \in {"RangeError", "UnsupportedCharacters", "CapacityExceeded"}
       /\ Screen.shows = "error"
       /\ Screen.message = <<lastRun.error.message>>
       /\ Screen.image = <<>>
       /\ Screen.metadata = <<>>
       /\ result.data = <<>>

\* a failed encode of a form that was changed from its defaults
C2_Witness ==
  /\ ~lastRun.ok
  /\ lastRun.error.name = "UnsupportedCharacters"
  /\ text = <<"Q">> /\ mode = "numeric" /\ ecl = "HIGH"
  /\ Screen.shows = "error"
  /\ Screen.message = <<"String contains non-numeric characters">>

EmptyEncoded == text = <<>> /\ lastRun.ok

\* C3 as claimed: a successful encode of the empty text has no segment and
\* usedMode none, in every mode.
C3_AsClaimed ==
  EmptyEncoded =>
    /\ lastRun.encodeCalls[1].segments = <<>>
    /\ result.data[1].metadata.segmentCount = 0
    /\ result.data[1].metadata.usedMode = "none"

\* C3 amended: for the empty text buildSegments returns no segment in auto
\* mode and one empty segment of the requested kind in numeric, alphanumeric
\* and byte mode, and never fails; a successful encode reports segmentCount
\* 0 and usedMode none in auto mode, segmentCount 1 and the requested mode
\* as usedMode in the others.
C3_EmptyText ==
  /\ EmptyEncoded =>
       IF mode = "auto"
       THEN /\ lastRun.encodeCalls[1].segments = <<>>
            /\ result.data[1].metadata.segmentCount = 0
            /\ result.data[1].metadata.usedMode = "none"
       ELSE /\ Len(lastRun.encodeCalls[1].segments) = 1
            /\ lastRun.encodeCalls[1].segments[1].data = <<>>
            /\ result.data[1].metadata.segmentCount = 1
            /\ result.data[1].metadata.usedMode = mode
  /\ (text = <<>> /\ ~lastRun.ok) => lastRun.error.name # "UnsupportedCharacters"

C3_Witness ==
  /\ EmptyEncoded
  /\ mode = "numeric"
  /\ result.data[1].metadata.segmentCount = 1
  /\ result.data[1].metadata.usedMode = "numeric"

(***************************************************************************)
(* Exports.                                                                *)
(***************************************************************************)
Done == {e \in 1..MaxExports : exports[e].pc = "done"}
Waiting == {e \in 1..MaxExports : exports[e].pc = "awaitImage"}

\* C7: an export whose image fails to decode rejects with 'Unable to render
\* QR image', one that gets no 2d context rejects with 'Unable to create
\* image canvas'; either rejection is alerted by handleSavePng and triggers
\* no download; a download follows only a decode and a context.
C7_ExportErrors ==
  \A e \in Done :
    /\ exports[e].event = "error" =>
         /\ exports[e].rejected # <<>>
         /\ exports[e].rejected[1].message = "Unable to render QR image"
    /\ exports[e].event = "loadNoContext" =>
         /\ exports[e].rejected # <<>>
         /\ exports[e].rejected[1].message = "Unable to create image canvas"
    /\ exports[e].rejected # <<>> =>
         /\ exports[e].alert = <<exports[e].rejected[1].message>>
         /\ exports[e].download = <<>>
    /\ exports[e].download # <<>> <=> exports[e].event = "load"
    /\ exports[e].event = "load" => exports[e].rejected = <<>> /\ exports[e].alert = <<>>

C7_Witness ==
  \E e \in Done :
    /\ exports[e].event = "loadNoContext"
    /\ exports[e].alert = <<"Unable to create image canvas">>
    /\ exports[e].download = <<>>

\* C9: every export holds an object URL of its own; the URL is live while the
\* export awaits its image and has been revoked exactly once when the export
\* is over, however it ended; no URL is revoked twice.
C9_UrlReleasedOnce ==
  /\ \A e \in Started :
       /\ exports[e].svgUrl \in Created
       /\ \A o \in Started : o # e => exports[o].svgUrl # exports[e].svgUrl
  /\ \A e \in Waiting : objectUrls[exports[e].svgUrl].revoked = 0
  /\ \A e \in Done : objectUrls[exports[e].svgUrl].revoked = 1
  /\ \A u \in Created : objectUrls[u].revoked <= 1 /\ \E e \in Started : exports[e].svgUrl = u
  /\ \A u \in (1..MaxExports) \ Created : objectUrls[u].revoked = 0

\* one export over by a decode failure while another still awaits its image
C9_Witness ==
  \E e \in Done, o \in Waiting :
    /\ exports[e].event = "error"
    /\ objectUrls[exports[e].svgUrl].revoked = 1
    /\ objectUrls[exports[o].svgUrl].revoked = 0

\* C10: a new encode leaves every export as it is, an export awaiting its
\* image keeps the document it was started with and, when it downloads,
\* downloads that document at its size; no step of an export changes the
\* form or the displayed result.
C10_Independent ==
  [][/\ \A e \in Waiting :
          /\ exports'[e].pc \in {"awaitImage", "done"}
          /\ exports'[e].svg = exports[e].svg
          /\ exports'[e].download # <<>> =>
               /\ exports'[e].download[1].document = exports[e].svg[1]
               /\ exports'[e].download[1].side = canvasSize(exports[e].svg[1])
     /\ appVars' # appVars => exports' = exports /\ objectUrls' = objectUrls
     /\ exports' # exports => appVars' = appVars]_vars

\* an export awaiting its image while the panel shows the error of a later encode
C10_Witness ==
  \E e \in Waiting : Screen.shows = "error" /\ exports[e].svg # <<>>

====
